---- MODULE Spec2Model ----
(***************************************************************************)
(* Model of the caching collector of flowercare-exporter                   *)
(* (src/collector.go, src/main.go).                                        *)
(*                                                                         *)
(* One flowercareCollector is registered with the Prometheus registry.     *)
(* Every scrape (HTTP request) makes the registry call Collect on it, in a *)
(* goroutine of its own, so Collect invocations may overlap.  The          *)
(* collector holds no lock: the gauge and the counter are atomic           *)
(* (client_golang), the cache struct is plain memory.  The struct          *)
(* assignment of line 117 and the by-value copy of line 125 are therefore  *)
(* modelled field by field, in the order of the fields, so that a          *)
(* concurrent reader or writer may act between two fields; every mix of    *)
(* old and new fields a reader can see arises this way.                    *)
(*                                                                         *)
(* Time is counted in ticks, TicksPerSecond ticks to the second.           *)
(* Metric values are float64 in the code; here a value v is represented    *)
(* by the integer v * Scale (fixed point, four decimals).                  *)
(***************************************************************************)
EXTENDS Integers, Sequences, FiniteSets, TLC

(* ------------------------------ bounds --------------------------------- *)

\* the clock runs from 0 to MaxTime ticks
MaxTime == 3

\* at most MaxErrors device reads fail in one behaviour
MaxErrors == 1

\* the goroutines that run Collect (overlapping scrapes)
Procs == {"g1", "g2"}

\* the configured cache durations explored, in ticks (negative, zero, positive)
Durations == {-1, 0, 2}

\* the command lines explored: --device, --adapter, --cache-duration
Configs ==
    [MacAddress : {"", "C4:7C:8D:6A:5E:15"}, Device : {"", "hci0"},
     CacheDuration : Durations]

(* ------------------------- program constants --------------------------- *)

\* ticks per second of the model's clock
TicksPerSecond == 2

\* the zero value of time.Time (year 1), far before every clock value
ZeroTime == -100

\* fixed-point scale of metric values: value v is stored as v * Scale
Scale == 10000

\* factorConductivity = 0.0001 = 1 / PerConductivity
PerConductivity == 10000

\* marks a string that is not valid UTF-8
BadVersion == "\\xff"

(* --------------------------- device values ----------------------------- *)

ZeroFirmware == [Version |-> "", Battery |-> 0]

ZeroSensors == [Conductivity |-> 0, Light |-> 0, Moisture |-> 0, Temperature |-> 0]

\* the zero value of sensorData
ZeroData == [Time |-> ZeroTime, Firmware |-> ZeroFirmware, Sensors |-> ZeroSensors]

\* what the device may report: miflora.Firmware and miflora.Sensors
\* (Temperature is a float64, kept in tenths of a degree)
Readings ==
    { [Firmware |-> [Version |-> "1.2", Battery |-> 80],
       Sensors  |-> [Conductivity |-> 350, Light |-> 1200, Moisture |-> 30,
                     Temperature |-> 225]],
      [Firmware |-> [Version |-> BadVersion, Battery |-> 50],
       Sensors  |-> [Conductivity |-> 0, Light |-> 7, Moisture |-> 99,
                     Temperature |-> -15]] }

\* the largest value of miflora.Sensors.Conductivity, a uint16
MaxConductivity == 65535

\* readings that span the range of the conductivity
WideReadings ==
    Readings \cup
    { [Firmware |-> [Version |-> "1.2", Battery |-> 100],
       Sensors  |-> [Conductivity |-> v, Light |-> 0, Moisture |-> 0,
                     Temperature |-> 0]] : v \in {0, 1, MaxConductivity} }

\* the fields of sensorData, in memory order
Fields == << "Time", "Firmware", "Sensors" >>

(* ------------------------------- state --------------------------------- *)

VARIABLES
    now,            \* the wall clock, in ticks
    CacheDuration,  \* flowercareCollector.CacheDuration, in ticks
    cache,          \* flowercareCollector.cache
    up,             \* value of upMetric
    scrapeErrors,   \* value of scrapeErrorsMetric
    pc,             \* pc[p]: where goroutine p stands in Collect
    data,           \* the *sensorData readData returned to Collect
    attempt,        \* what readData returned to p: "none" (not called), "ok", "failed"
    arg,            \* collectData's by-value parameter data
    todo,           \* next field of the struct copy in progress (lines 117, 125)
    emitted,        \* the metrics p has sent on ch in its current invocation
    failedReads,    \* history: number of readData calls that returned an error
    lastAttempt,    \* history: outcome of the readData call that returned last
    chk,            \* history: what p's freshness re-check met: "none" (not yet),
                    \*   "fresh" (a reading younger than CacheDuration), "stale"
    quiet,          \* history: the cache was whole at p's re-check and has not
                    \*   been written since
    calm,           \* history: p's readData failed while a whole, fresh reading
                    \*   was cached, and no readData has succeeded since
    hit,            \* history: p was invoked while a whole reading younger than
                    \*   CacheDuration was cached
    config,         \* the command line given to the process
    mainPc,         \* where main stands: "start", "fatal" (log.Fatalf), "serving"
    reader          \* what the device at the configured address may report

vars == << now, CacheDuration, cache, up, scrapeErrors, pc, data, attempt,
           arg, todo, emitted, failedReads, lastAttempt, chk, quiet, calm, hit, config, mainPc, reader >>


(* --------------------------- pure functions ---------------------------- *)

\* time.Since(t): the clock minus t
Since(t) == now - t

\* Time.Unix(): whole seconds, rounded towards minus infinity
Unix(t) == t \div TicksPerSecond

\* float64(x) of an integer x
Float(x) == x * Scale

\* a variant of Stale that is late by one tick
StaleLate(t) == Since(t) - 1 > CacheDuration

\* line 108: the cache is too old, read the device
Stale(t) == Since(t) > CacheDuration

\* a variant of Fresh that still accepts age = CacheDuration
FreshLe(t) == Since(t) <= CacheDuration

\* a variant of Fresh that gives up one tick early
FreshEarly(t) == Since(t) < CacheDuration - 1

\* line 124: the cache is young enough to be emitted
Fresh(t) == Since(t) < CacheDuration

\* number of variable labels of a descriptor (lines 63-90)
VariableLabels(name) == IF name = "info" THEN 1 ELSE 0

\* prometheus.NewConstMetric fails on a label count that differs from the
\* descriptor's and on a label value that is not valid UTF-8
NewConstMetricFails(name, labels) ==
    \/ Len(labels) # VariableLabels(name)
    \/ \E i \in 1..Len(labels) : labels[i] = BadVersion

Metric(name, value, labels) == [name |-> name, value |-> value, labels |-> labels]

\* a variant of MetricList that leaves out the factor of the conductivity
MetricListRaw(d) ==
    << Metric("scrape_timestamp", Float(Unix(d.Time)), << >>),
       Metric("info", Float(1), << d.Firmware.Version >>),
       Metric("battery_percent", Float(d.Firmware.Battery), << >>),
       Metric("conductivity_sm", Float(d.Sensors.Conductivity), << >>),
       Metric("brightness_lux", Float(d.Sensors.Light), << >>),
       Metric("moisture_percent", Float(d.Sensors.Moisture), << >>),
       Metric("temperature_celsius", (d.Sensors.Temperature * Scale) \div 10, << >>) >>

\* a variant of MetricList that stamps the time of the scrape
MetricListNow(d) ==
    << Metric("scrape_timestamp", Float(Unix(now)), << >>),
       Metric("info", Float(1), << d.Firmware.Version >>),
       Metric("battery_percent", Float(d.Firmware.Battery), << >>),
       Metric("conductivity_sm", Float(d.Sensors.Conductivity) \div PerConductivity, << >>),
       Metric("brightness_lux", Float(d.Sensors.Light), << >>),
       Metric("moisture_percent", Float(d.Sensors.Moisture), << >>),
       Metric("temperature_celsius", (d.Sensors.Temperature * Scale) \div 10, << >>) >>

\* the metrics collectData builds from data, in order (lines 132-163)
MetricList(d) ==
    << Metric("scrape_timestamp", Float(Unix(d.Time)), << >>),
       Metric("info", Float(1), << d.Firmware.Version >>),
       Metric("battery_percent", Float(d.Firmware.Battery), << >>),
       Metric("conductivity_sm", Float(d.Sensors.Conductivity) \div PerConductivity, << >>),
       Metric("brightness_lux", Float(d.Sensors.Light), << >>),
       Metric("moisture_percent", Float(d.Sensors.Moisture), << >>),
       Metric("temperature_celsius", (d.Sensors.Temperature * Scale) \div 10, << >>) >>

\* a variant of SendFrom that skips a metric it cannot build and goes on
RECURSIVE SendFromSkip(_, _)
SendFromSkip(ms, i) ==
    IF i > Len(ms) THEN [out |-> << >>, err |-> FALSE]
    ELSE LET rest == SendFromSkip(ms, i + 1)
         IN  IF NewConstMetricFails(ms[i].name, ms[i].labels)
             THEN [out |-> rest.out, err |-> TRUE]
             ELSE [out |-> << ms[i] >> \o rest.out, err |-> rest.err]

\* sendMetric over the list from position i on: stop at the first metric that
\* cannot be built (lines 132-170, 193-201)
RECURSIVE SendFromSilent(_, _)
\* a variant of SendFrom that stops at the failure but reports none
SendFromSilent(ms, i) ==
    IF i > Len(ms) THEN [out |-> << >>, err |-> FALSE]
    ELSE IF NewConstMetricFails(ms[i].name, ms[i].labels)
         THEN [out |-> << >>, err |-> FALSE]
         ELSE [SendFromSilent(ms, i + 1) EXCEPT !.out = << ms[i] >> \o @]

RECURSIVE SendFrom(_, _)
SendFrom(ms, i) ==
    IF i > Len(ms) THEN [out |-> << >>, err |-> FALSE]
    ELSE IF NewConstMetricFails(ms[i].name, ms[i].labels)
         THEN [out |-> << >>, err |-> TRUE]
         ELSE [SendFrom(ms, i + 1) EXCEPT !.out = << ms[i] >> \o @]

\* collectData(ch, data): what is sent on ch and whether an error is returned
collectData(d) == SendFrom(MetricList(d), 1)

\* the adapter name is not looked at
parseConfigNoDevice(cfg) ==
    IF cfg.MacAddress = "" THEN [config |-> cfg, err |-> "need to provide a device address"]
    ELSE [config |-> cfg, err |-> ""]

\* parseConfig (main.go, lines 20-42): an empty device address or adapter is
\* an error; the cache duration is taken as given, whatever its sign
parseConfig(cfg) ==
    IF cfg.MacAddress = "" THEN [config |-> cfg, err |-> "need to provide a device address"]
    ELSE IF cfg.Device = "" THEN [config |-> cfg, err |-> "need to provide a bluetooth device"]
    ELSE [config |-> cfg, err |-> ""]

(* ------------------------------- Init ---------------------------------- *)

\* the process starts with some command line; no collector exists yet
Start ==
    /\ now = 0
    /\ config \in Configs
    /\ mainPc = "start"
    /\ CacheDuration = 0
    /\ cache = ZeroData
    /\ up = 0
    /\ scrapeErrors = 0
    /\ pc = [p \in Procs |-> "idle"]
    /\ data = [p \in Procs |-> ZeroData]
    /\ attempt = [p \in Procs |-> "none"]
    /\ arg = [p \in Procs |-> ZeroData]
    /\ todo = [p \in Procs |-> 0]
    /\ emitted = [p \in Procs |-> << >>]
    /\ failedReads = 0
    /\ lastAttempt = "none"
    /\ chk = [p \in Procs |-> "none"]
    /\ quiet = [p \in Procs |-> FALSE]
    /\ calm = [p \in Procs |-> FALSE]
    /\ hit = [p \in Procs |-> FALSE]

Init == Start /\ reader = Readings

\* the same process with a device that reports the extremes of its range
InitWide == Start /\ reader = WideReadings

(* ------------------------------ actions -------------------------------- *)

\* main (main.go lines 44-63): a configuration error is fatal; otherwise the
\* collector is built with the configured cache duration (newCollector,
\* collector.go lines 43-92), registered, and the endpoint serves
Main ==
    /\ mainPc = "start"
    /\ IF parseConfig(config).err # ""
       THEN /\ mainPc' = "fatal"
            /\ UNCHANGED CacheDuration
       ELSE /\ mainPc' = "serving"
            /\ CacheDuration' = parseConfig(config).config.CacheDuration
    /\ UNCHANGED << now, cache, up, scrapeErrors, pc, data, attempt, arg, todo,
                    emitted, failedReads, lastAttempt, chk, quiet, calm, hit, config,
                    reader >>

\* time passes
Tick ==
    /\ now < MaxTime
    /\ now' = now + 1
    /\ UNCHANGED << CacheDuration, cache, up, scrapeErrors, pc, data, attempt,
                    arg, todo, emitted, failedReads, lastAttempt, chk, quiet, calm, hit, config, mainPc, reader >>

\* Collect is called; line 108 decides whether to read the device
CollectEntry(p) ==
    /\ mainPc = "serving"
    /\ pc[p] \in {"idle", "done"}
    /\ pc' = [pc EXCEPT ![p] = IF Stale(cache.Time) THEN "readData" ELSE "emitUp"]
    /\ attempt' = [attempt EXCEPT ![p] = "none"]
    /\ emitted' = [emitted EXCEPT ![p] = << >>]
    /\ chk' = [chk EXCEPT ![p] = "none"]
    /\ quiet' = [quiet EXCEPT ![p] = FALSE]
    /\ calm' = [calm EXCEPT ![p] = FALSE]
    /\ hit' = [hit EXCEPT ![p] =
                  /\ cache.Time # ZeroTime
                  /\ now - cache.Time < CacheDuration
                  /\ \A q \in Procs : pc[q] # "writeCache"]
    /\ UNCHANGED << now, CacheDuration, cache, up, scrapeErrors, data, arg, todo,
                    failedReads, lastAttempt, config, mainPc, reader >>

\* readData (lines 173-191): ReadFirmware or ReadSensors fails, or both
\* succeed and the result is stamped with time.Now()
readData(p) ==
    /\ pc[p] = "readData"
    /\ \/ /\ failedReads < MaxErrors
          /\ attempt' = [attempt EXCEPT ![p] = "failed"]
          /\ pc' = [pc EXCEPT ![p] = "incErrors"]
          /\ failedReads' = failedReads + 1
          /\ lastAttempt' = "failed"
          /\ calm' = [calm EXCEPT ![p] =
                          /\ cache.Time # ZeroTime
                          /\ now - cache.Time < CacheDuration
                          /\ \A q \in Procs : pc[q] \notin {"setUp1", "writeCache"}]
          /\ UNCHANGED data
       \/ /\ \E r \in reader :
                data' = [data EXCEPT ![p] =
                            [Time |-> now, Firmware |-> r.Firmware, Sensors |-> r.Sensors]]
          /\ attempt' = [attempt EXCEPT ![p] = "ok"]
          /\ pc' = [pc EXCEPT ![p] = "setUp1"]
          /\ lastAttempt' = "ok"
          /\ calm' = [q \in Procs |-> FALSE]
          /\ UNCHANGED failedReads
    /\ UNCHANGED << now, CacheDuration, cache, up, scrapeErrors, arg, todo,
                    emitted, chk, quiet, hit, config, mainPc, reader >>

\* a variant of IncErrors that forgets to count
IncErrorsSkip(p) ==
    /\ pc[p] = "incErrors"
    /\ pc' = [pc EXCEPT ![p] = "setUp0"]
    /\ UNCHANGED << now, CacheDuration, cache, up, scrapeErrors, data, attempt, arg,
                    todo, emitted, failedReads, lastAttempt, chk, quiet, calm, hit, config, mainPc, reader >>

\* a variant of IncErrors that also blanks the cache
IncErrorsBlank(p) ==
    /\ pc[p] = "incErrors"
    /\ scrapeErrors' = scrapeErrors + 1
    /\ cache' = ZeroData
    /\ pc' = [pc EXCEPT ![p] = "setUp0"]
    /\ UNCHANGED << now, CacheDuration, up, data, attempt, arg, todo,
                    emitted, failedReads, lastAttempt, chk, quiet, calm, hit, config, mainPc, reader >>

\* c.scrapeErrorsMetric.Inc() (line 113)
IncErrors(p) ==
    /\ pc[p] = "incErrors"
    /\ scrapeErrors' = scrapeErrors + 1
    /\ pc' = [pc EXCEPT ![p] = "setUp0"]
    /\ UNCHANGED << now, CacheDuration, cache, up, data, attempt, arg, todo,
                    emitted, failedReads, lastAttempt, chk, quiet, calm, hit, config, mainPc, reader >>

\* a variant of SetUp0 that leaves the gauge as it is
SetUp0Skip(p) ==
    /\ pc[p] = "setUp0"
    /\ pc' = [pc EXCEPT ![p] = "emitUp"]
    /\ UNCHANGED << now, CacheDuration, cache, up, scrapeErrors, data, attempt, arg,
                    todo, emitted, failedReads, lastAttempt, chk, quiet, calm, hit, config, mainPc, reader >>

\* after a failed fetch the device is read again
SetUp0Retry(p) ==
    /\ pc[p] = "setUp0"
    /\ up' = 0
    /\ pc' = [pc EXCEPT ![p] = "readData"]
    /\ UNCHANGED << now, CacheDuration, cache, scrapeErrors, data, attempt, arg,
                    todo, emitted, failedReads, lastAttempt, chk, quiet, calm, hit, config, mainPc, reader >>

\* c.upMetric.Set(0) (line 114)
SetUp0(p) ==
    /\ pc[p] = "setUp0"
    /\ up' = 0
    /\ pc' = [pc EXCEPT ![p] = "emitUp"]
    /\ UNCHANGED << now, CacheDuration, cache, scrapeErrors, data, attempt, arg,
                    todo, emitted, failedReads, lastAttempt, chk, quiet, calm, hit, config, mainPc, reader >>

\* c.upMetric.Set(1) (line 116)
SetUp1(p) ==
    /\ pc[p] = "setUp1"
    /\ up' = 1
    /\ pc' = [pc EXCEPT ![p] = "writeCache"]
    /\ todo' = [todo EXCEPT ![p] = 1]
    /\ UNCHANGED << now, CacheDuration, cache, scrapeErrors, data, attempt, arg,
                    emitted, failedReads, lastAttempt, chk, quiet, calm, hit, config, mainPc, reader >>

\* the copy never moves on to the next field
WriteCacheStuck(p) ==
    /\ pc[p] = "writeCache"
    /\ cache' = [cache EXCEPT ![Fields[todo[p]]] = data[p][Fields[todo[p]]]]
    /\ UNCHANGED << pc, data, todo >>
    /\ quiet' = [q \in Procs |-> FALSE]
    /\ UNCHANGED << now, CacheDuration, up, scrapeErrors, attempt, arg, emitted,
                    failedReads, lastAttempt, chk, calm, hit, config, mainPc, reader >>

\* c.cache = *data (line 117), one field at a time
WriteCache(p) ==
    /\ pc[p] = "writeCache"
    /\ cache' = [cache EXCEPT ![Fields[todo[p]]] = data[p][Fields[todo[p]]]]
    /\ IF todo[p] = Len(Fields)
       THEN /\ pc' = [pc EXCEPT ![p] = "emitUp"]
            /\ todo' = [todo EXCEPT ![p] = 0]
            /\ data' = [data EXCEPT ![p] = ZeroData]
       ELSE /\ todo' = [todo EXCEPT ![p] = todo[p] + 1]
            /\ UNCHANGED << pc, data >>
    /\ quiet' = [q \in Procs |-> FALSE]
    /\ UNCHANGED << now, CacheDuration, up, scrapeErrors, attempt, arg,
                    emitted, failedReads, lastAttempt, chk, calm, hit, config, mainPc, reader >>

\* c.upMetric.Collect(ch) (line 121)
EmitUp(p) ==
    /\ pc[p] = "emitUp"
    /\ emitted' = [emitted EXCEPT ![p] = Append(emitted[p], Metric("up", Float(up), << >>))]
    /\ pc' = [pc EXCEPT ![p] = "emitErrors"]
    /\ UNCHANGED << now, CacheDuration, cache, up, scrapeErrors, data, attempt,
                    arg, todo, failedReads, lastAttempt, chk, quiet, calm, hit, config, mainPc, reader >>

\* the sensor metrics follow without the freshness re-check
EmitErrorsNoRecheck(p) ==
    /\ pc[p] = "emitErrors"
    /\ emitted' = [emitted EXCEPT ![p] =
                      Append(emitted[p], Metric("scrape_errors_total", Float(scrapeErrors), << >>))]
    /\ pc' = [pc EXCEPT ![p] = "copyCache"]
    /\ todo' = [todo EXCEPT ![p] = 1]
    /\ UNCHANGED << now, CacheDuration, cache, up, scrapeErrors, data, attempt,
                    arg, failedReads, lastAttempt, chk, quiet, calm, hit, config, mainPc, reader >>

\* c.scrapeErrorsMetric.Collect(ch) (line 122)
EmitErrors(p) ==
    /\ pc[p] = "emitErrors"
    /\ emitted' = [emitted EXCEPT ![p] =
                      Append(emitted[p], Metric("scrape_errors_total", Float(scrapeErrors), << >>))]
    /\ pc' = [pc EXCEPT ![p] = "recheck"]
    /\ UNCHANGED << now, CacheDuration, cache, up, scrapeErrors, data, attempt,
                    arg, todo, failedReads, lastAttempt, chk, quiet, calm, hit, config, mainPc, reader >>

\* a re-check that drops a reading it finds too old
RecheckEvict(p) ==
    /\ pc[p] = "recheck"
    /\ IF Fresh(cache.Time)
       THEN /\ pc' = [pc EXCEPT ![p] = "copyCache"]
            /\ todo' = [todo EXCEPT ![p] = 1]
            /\ UNCHANGED cache
       ELSE /\ pc' = [pc EXCEPT ![p] = "done"]
            /\ cache' = ZeroData
            /\ UNCHANGED todo
    /\ chk' = [chk EXCEPT ![p] =
                  IF cache.Time # ZeroTime /\ now - cache.Time < CacheDuration
                  THEN "fresh" ELSE "stale"]
    /\ quiet' = [quiet EXCEPT ![p] = \A q \in Procs : pc[q] # "writeCache"]
    /\ UNCHANGED << now, CacheDuration, up, scrapeErrors, data, attempt,
                    arg, emitted, failedReads, lastAttempt, calm, hit, config, mainPc, reader >>

\* the freshness re-check (line 124)
Recheck(p) ==
    /\ pc[p] = "recheck"
    /\ IF Fresh(cache.Time)
       THEN /\ pc' = [pc EXCEPT ![p] = "copyCache"]
            /\ todo' = [todo EXCEPT ![p] = 1]
       ELSE /\ pc' = [pc EXCEPT ![p] = "done"]
            /\ UNCHANGED todo
    /\ chk' = [chk EXCEPT ![p] =
                  IF cache.Time # ZeroTime /\ now - cache.Time < CacheDuration
                  THEN "fresh" ELSE "stale"]
    /\ quiet' = [quiet EXCEPT ![p] = \A q \in Procs : pc[q] # "writeCache"]
    /\ UNCHANGED << now, CacheDuration, cache, up, scrapeErrors, data, attempt,
                    arg, emitted, failedReads, lastAttempt, calm, hit, config, mainPc, reader >>

\* c.cache is copied into collectData's parameter (line 125), one field at a
\* time; collectData then runs on the copy, its error is logged and Collect
\* returns (lines 125-128, 131-171)
CopyCache(p) ==
    /\ pc[p] = "copyCache"
    /\ LET copy == [arg[p] EXCEPT ![Fields[todo[p]]] = cache[Fields[todo[p]]]]
       IN  IF todo[p] = Len(Fields)
           THEN /\ emitted' = [emitted EXCEPT ![p] = emitted[p] \o collectData(copy).out]
                /\ pc' = [pc EXCEPT ![p] = "done"]
                /\ todo' = [todo EXCEPT ![p] = 0]
                /\ arg' = [arg EXCEPT ![p] = ZeroData]
           ELSE /\ arg' = [arg EXCEPT ![p] = copy]
                /\ todo' = [todo EXCEPT ![p] = todo[p] + 1]
                /\ UNCHANGED << pc, emitted >>
    /\ UNCHANGED << now, CacheDuration, cache, up, scrapeErrors, data, attempt,
                    failedReads, lastAttempt, chk, quiet, calm, hit, config, mainPc, reader >>

\* one step of goroutine p
Collect(p) ==
    \/ CollectEntry(p)
    \/ readData(p)
    \/ IncErrors(p)
    \/ SetUp0(p)
    \/ SetUp1(p)
    \/ WriteCache(p)
    \/ EmitUp(p)
    \/ EmitErrors(p)
    \/ Recheck(p)
    \/ CopyCache(p)

Next ==
    \/ Main
    \/ Tick
    \/ \E p \in Procs : Collect(p)

\* overlapping scrapes
Spec == Init /\ [][Next]_vars

\* p is inside Collect
Active(p) == pc[p] \notin {"idle", "done"}

\* at most one goroutine is inside Collect
Serial == \A p, q \in Procs : Active(p) /\ Active(q) => p = q

\* scrapes one after the other: no Collect starts while another is running
NextSeq == Next /\ Serial'

SpecSeq == Init /\ [][NextSeq]_vars

\* serial scrapes of a device that reports the extremes of its range
SpecWide == InitWide /\ [][NextSeq]_vars

\* a step of p inside Collect: the goroutine is scheduled, readData returns
\* (lines 173-191) and the receiver of ch takes what is sent (line 200)
Step(p) == Active(p) /\ Collect(p)

\* two scrape requests, each served by a goroutine of its own that calls
\* Collect once
NextOnce == Next /\ \A p \in Procs : pc[p] = "done" => pc'[p] = "done"

\* every goroutine inside Collect keeps being scheduled
SpecLive == Init /\ [][NextOnce]_vars /\ \A p \in Procs : WF_vars(Step(p))

(* ------------------------------ claims --------------------------------- *)

\* the names of the metrics collectData sends, in order
SensorNames ==
    << "scrape_timestamp", "info", "battery_percent", "conductivity_sm",
       "brightness_lux", "moisture_percent", "temperature_celsius" >>

\* Collect has returned
Done(p) == pc[p] = "done"

\* the names of what p has emitted, in order
Names(p) == [i \in 1..Len(emitted[p]) |-> emitted[p][i].name]

\* what p has emitted after up and scrape_errors_total
SensorPart(p) == SubSeq(emitted[p], 3, Len(emitted[p]))

\* C1: a snapshot emits sensor metrics only if its freshness re-check met a
\* reading younger than CacheDuration; a snapshot whose re-check met anything
\* else returns having emitted exactly up and scrape_errors_total.
C1_SensorMetricsOnlyWhenFresh ==
    \A p \in Procs :
        /\ Len(emitted[p]) > 2 => chk[p] = "fresh"
        /\ Done(p) => SubSeq(Names(p), 1, 2) = << "up", "scrape_errors_total" >>
        /\ Done(p) /\ chk[p] # "fresh" => Names(p) = << "up", "scrape_errors_total" >>

C1_Witness ==
    \E p, q \in Procs :
        /\ Done(p) /\ chk[p] = "fresh" /\ Len(emitted[p]) = 9
        /\ Done(q) /\ chk[q] = "stale" /\ Len(emitted[q]) = 2 /\ cache.Time # ZeroTime

\* C2: when p's refresh fails while a whole, fresh reading is cached (put
\* there by an overlapping snapshot) and no refresh succeeds afterwards, then,
\* if the reading is still fresh at p's re-check, p emits up = 0, an error
\* counter that has been incremented, and that reading unchanged.
C2_FailedRefreshServesCachedReading ==
    \A p \in Procs :
        Done(p) /\ calm[p] /\ chk[p] = "fresh" =>
            /\ attempt[p] = "failed"
            /\ emitted[p][1] = Metric("up", Float(0), << >>)
            /\ emitted[p][2].value >= Float(1)
            /\ SensorPart(p) = collectData(cache).out

C2_Witness ==
    \E p \in Procs :
        Done(p) /\ calm[p] /\ chk[p] = "fresh" /\ Len(emitted[p]) = 9

\* the steps of p after its readData has failed
FailedStep(p) == attempt'[p] = "failed" /\ pc'[p] # pc[p]

\* C3: the steps of a snapshot whose fetch failed leave the cache as it is,
\* add exactly one to scrape_errors_total (line 113), set up to 0 (line 114)
\* and lead on to the emission of up and scrape_errors_total; if the cache
\* has never been written, that snapshot emits no sensor metric.
C3_FailedFetch ==
    /\ [][\A p \in Procs : FailedStep(p) =>
              /\ cache' = cache
              /\ scrapeErrors' = scrapeErrors + (IF pc[p] = "incErrors" THEN 1 ELSE 0)
              /\ up' = (IF pc[p] = "setUp0" THEN 0 ELSE up)
              /\ pc[p] = "readData" => pc'[p] = "incErrors"
              /\ pc[p] = "incErrors" => pc'[p] = "setUp0"
              /\ pc[p] = "setUp0" => pc'[p] = "emitUp"]_vars
    /\ [](\A p \in Procs :
              Done(p) /\ attempt[p] = "failed" =>
                  /\ SubSeq(Names(p), 1, 2) = << "up", "scrape_errors_total" >>
                  /\ emitted[p][2].value >= Float(1)
                  /\ cache = ZeroData => Names(p) = << "up", "scrape_errors_total" >>)

C3_Witness ==
    \E p \in Procs :
        Done(p) /\ attempt[p] = "failed" /\ cache = ZeroData /\ Len(emitted[p]) = 2

C5_UpIsLastAttempt ==
    \A p \in Procs :
        pc[p] \in {"emitErrors", "recheck", "copyCache"} =>
            emitted[p][1] = Metric("up", Float(IF lastAttempt = "ok" THEN 1 ELSE 0), << >>)

C5_Witness ==
    \E p \in Procs :
        /\ pc[p] = "recheck" /\ lastAttempt = "failed" /\ cache.Time # ZeroTime
        /\ emitted[p][1].value = 0

C7_Idempotence ==
    \A p, q \in Procs :
        /\ Done(p) /\ chk[p] = "fresh" /\ quiet[p]
        /\ Done(q) /\ chk[q] = "fresh" /\ quiet[q]
        => SensorPart(p) = SensorPart(q)

C7_Witness ==
    \E p, q \in Procs :
        /\ p # q
        /\ Done(p) /\ chk[p] = "fresh" /\ quiet[p] /\ Len(emitted[p]) = 9
        /\ Done(q) /\ chk[q] = "fresh" /\ quiet[q] /\ Len(emitted[q]) = 9
        /\ attempt[p] = "ok" /\ attempt[q] = "none" /\ now > cache.Time

\* a sensorData as one readData call returns it
Fetched ==
    { [Time |-> t, Firmware |-> r.Firmware, Sensors |-> r.Sensors] :
          t \in 0..MaxTime, r \in Readings }

\* C8: the sensor metrics one snapshot emits all come from one single
\* fetched reading.
C8_OneReadingPerSnapshot ==
    \A p \in Procs :
        Done(p) /\ Len(emitted[p]) > 2 =>
            \E d \in Fetched : SensorPart(p) = collectData(d).out

\* C9 as stated: when the info metric cannot be built, only that metric is
\* missing from what the snapshot emits.
C9_Original ==
    \A p \in Procs :
        Done(p) /\ chk[p] = "fresh" /\ quiet[p] /\ cache.Firmware.Version = BadVersion =>
            Names(p) = << "up", "scrape_errors_total", "scrape_timestamp",
                          "battery_percent", "conductivity_sm", "brightness_lux",
                          "moisture_percent", "temperature_celsius" >>

\* C9, amended: when the info metric cannot be built, the snapshot still
\* returns, having emitted up, scrape_errors_total and the metric before info;
\* info and every metric after it are missing.
C9_FailureCutsTheRest ==
    \A p \in Procs :
        Done(p) /\ chk[p] = "fresh" /\ quiet[p] /\ cache.Firmware.Version = BadVersion =>
            /\ Names(p) = << "up", "scrape_errors_total", "scrape_timestamp" >>
            /\ emitted[p][3].value = Float(Unix(cache.Time))

C9_Witness ==
    \E p \in Procs :
        /\ Done(p) /\ chk[p] = "fresh" /\ quiet[p] /\ cache.Firmware.Version = BadVersion
        /\ Len(emitted[p]) = 3

\* p has passed line 108
Entered(p) == pc[p] # "idle"

\* C10 as stated: with CacheDuration <= 0 every snapshot calls readData.
C10_Original ==
    \A p \in Procs :
        CacheDuration <= 0 /\ Entered(p) => pc[p] = "readData" \/ attempt[p] # "none"

\* C10, amended: a collector with CacheDuration <= 0 is built and scraped; a
\* snapshot of it calls readData unless CacheDuration = 0 and the clock at
\* line 108 still reads the capture time of the cached reading (age 0).
C10_RefreshUnlessAgeZero ==
    /\ [](CacheDuration \in Durations)
    /\ [][\A p \in Procs :
              /\ CacheDuration <= 0
              /\ pc[p] \in {"idle", "done"} /\ pc'[p] \notin {"idle", "done"}
              => (pc'[p] = "readData" <=> ~(CacheDuration = 0 /\ now = cache.Time))]_vars

C10_Witness ==
    \E p, q \in Procs :
        /\ CacheDuration = 0
        /\ Done(p) /\ attempt[p] = "ok" /\ cache.Time = 0
        /\ pc[q] = "readData" /\ now = 1

\* C11: given that readData returns and the receiver of ch takes what is
\* sent, every snapshot that is inside Collect eventually returns, whether
\* or not another snapshot overlaps it.
C11_EverySnapshotReturns ==
    \A p \in Procs : Active(p) ~> Done(p)

\* a snapshot has returned while the other one is still inside Collect
C11_Witness ==
    \E p, q \in Procs : Done(p) /\ attempt[p] = "ok" /\ Active(q) /\ attempt[q] = "failed"

\* C12: when the device address or the adapter name given on the command
\* line is empty, main ends with the configuration error: no collector is
\* built or registered, readData is never called, the endpoint never
\* serves and no snapshot ever runs.
C12_EmptyAddressOrAdapterIsFatal ==
    config.MacAddress = "" \/ config.Device = "" =>
        /\ mainPc \in {"start", "fatal"}
        /\ mainPc = "fatal" => parseConfig(config).err # ""
        /\ CacheDuration = 0 /\ cache = ZeroData /\ up = 0 /\ scrapeErrors = 0
        /\ lastAttempt = "none" /\ failedReads = 0
        /\ \A p \in Procs : pc[p] = "idle" /\ emitted[p] = << >>

\* main has ended on a command line whose adapter name alone is empty
C12_Witness ==
    mainPc = "fatal" /\ config.MacAddress # "" /\ config.Device = "" /\ now > 0

\* the value of the metric called name among what p has emitted
ValueOf(p, name) ==
    LET i == CHOOSE k \in 1..Len(emitted[p]) : emitted[p][k].name = name
    IN  emitted[p][i].value

\* C13: the sensor metrics of a snapshot carry the fields of the cached
\* reading: scrape_timestamp its capture time in whole seconds, info the
\* value 1 with the firmware version as its label, battery, brightness,
\* moisture and temperature the stored numbers, and conductivity_sm the
\* stored number times 0.0001 with nothing lost, from 0 up to the largest
\* value the device can report. (Values are in units of 1/Scale, the
\* temperature is stored in tenths of a degree.)
C13_ValuesAreTheCachedFields ==
    \A p \in Procs :
        Done(p) /\ quiet[p] /\ Len(emitted[p]) > 2 =>
            /\ ValueOf(p, "scrape_timestamp") = Scale * (cache.Time \div TicksPerSecond)
            /\ Len(emitted[p]) > 3 =>
                  /\ Names(p) = << "up", "scrape_errors_total" >> \o SensorNames
                  /\ emitted[p][4] = [name |-> "info", value |-> Scale,
                                      labels |-> << cache.Firmware.Version >>]
                  /\ ValueOf(p, "battery_percent") = Scale * cache.Firmware.Battery
                  /\ Scale % PerConductivity = 0
                  /\ ValueOf(p, "conductivity_sm")
                         = cache.Sensors.Conductivity * (Scale \div PerConductivity)
                  /\ ValueOf(p, "brightness_lux") = Scale * cache.Sensors.Light
                  /\ ValueOf(p, "moisture_percent") = Scale * cache.Sensors.Moisture
                  /\ ValueOf(p, "temperature_celsius") * 10 = Scale * cache.Sensors.Temperature

\* one snapshot has emitted the sensor set of a reading with conductivity 0,
\* a later one that of a reading with the largest conductivity
C13_Witness ==
    \E p, q \in Procs :
        /\ Done(p) /\ Len(emitted[p]) = 9 /\ ValueOf(p, "conductivity_sm") = 0
        /\ Done(q) /\ quiet[q] /\ Len(emitted[q]) = 9
        /\ cache.Sensors.Conductivity = MaxConductivity

\* C14: a snapshot calls readData if and only if, at its entry, the clock
\* minus the capture time of the cache exceeds CacheDuration, which is
\* always so while the cache has never been written; and when it is about
\* to call readData it has not called it before in the same invocation, so
\* readData is called at most once per snapshot.
C14_RefreshIffStaleAtEntryAtMostOnce ==
    /\ [][\A p \in Procs :
              pc[p] \in {"idle", "done"} /\ pc'[p] # pc[p] =>
                  /\ pc'[p] = "readData" <=> now - cache.Time > CacheDuration
                  /\ cache.Time = ZeroTime => pc'[p] = "readData"]_vars
    /\ [][\A p \in Procs :
              pc'[p] = "readData" /\ pc[p] # "readData" => pc[p] \in {"idle", "done"}]_vars
    /\ [](\A p \in Procs : pc[p] = "readData" => attempt[p] = "none")

\* one snapshot has returned after a fetch that failed, another one without
\* calling readData
C14_Witness ==
    \E p, q \in Procs :
        Done(p) /\ attempt[p] = "failed" /\ Done(q) /\ attempt[q] = "none"

\* the order of the steps of one snapshot
Order ==
    { << "idle", "readData" >>, << "idle", "emitUp" >>,
      << "done", "readData" >>, << "done", "emitUp" >>,
      << "readData", "incErrors" >>, << "incErrors", "setUp0" >>, << "setUp0", "emitUp" >>,
      << "readData", "setUp1" >>, << "setUp1", "writeCache" >>, << "writeCache", "emitUp" >>,
      << "emitUp", "emitErrors" >>, << "emitErrors", "recheck" >>,
      << "recheck", "copyCache" >>, << "recheck", "done" >>, << "copyCache", "done" >> }

\* C15: within one snapshot the refresh with its updates of up, the error
\* counter and the cache comes first, then up and scrape_errors_total are
\* emitted, each once and in this order, then freshness is checked again,
\* and only then the sensor metrics are emitted: a snapshot that has
\* refreshed reads the cache for its sensor metrics only after its own
\* refresh has been stored.
C15_OrderWithinOneSnapshot ==
    /\ [][\A p \in Procs : pc'[p] # pc[p] => << pc[p], pc'[p] >> \in Order]_vars
    /\ [](\A p \in Procs :
             /\ pc[p] \in {"readData", "incErrors", "setUp0", "setUp1", "writeCache", "emitUp"}
                   => emitted[p] = << >> /\ chk[p] = "none"
             /\ pc[p] = "emitErrors" => Names(p) = << "up" >> /\ chk[p] = "none"
             /\ pc[p] = "recheck" => Names(p) = << "up", "scrape_errors_total" >> /\ chk[p] = "none"
             /\ pc[p] = "copyCache" => Names(p) = << "up", "scrape_errors_total" >> /\ chk[p] = "fresh"
             /\ Done(p) =>
                   /\ chk[p] # "none"
                   /\ Len(emitted[p]) <= 2 + Len(SensorNames)
                   /\ Names(p) = SubSeq(<< "up", "scrape_errors_total" >> \o SensorNames,
                                         1, Len(emitted[p]))
             /\ attempt[p] = "ok" /\ pc[p] \in {"emitUp", "emitErrors", "recheck", "copyCache"}
                   => data[p] = ZeroData /\ cache.Time # ZeroTime)

\* a snapshot has refreshed and then emitted the whole sensor set while the
\* other snapshot is inside Collect
C15_Witness ==
    \E p, q \in Procs :
        Done(p) /\ attempt[p] = "ok" /\ Len(emitted[p]) = 9 /\ Active(q)

\* the position of the first metric of ms that cannot be built, Len(ms) + 1
\* if all can
FirstFail(ms) ==
    IF \E i \in 1..Len(ms) : NewConstMetricFails(ms[i].name, ms[i].labels)
    THEN CHOOSE i \in 1..Len(ms) :
             /\ NewConstMetricFails(ms[i].name, ms[i].labels)
             /\ \A j \in 1..(i - 1) : ~ NewConstMetricFails(ms[j].name, ms[j].labels)
    ELSE Len(ms) + 1

\* the metrics of the cached record with the labels of the k-th spoiled
Spoiled(k) == [MetricList(cache) EXCEPT ![k].labels = << "a", "b" >>]

\* C16: the sensor metrics are built and sent in the fixed order
\* scrape_timestamp, info, battery_percent, conductivity_sm, brightness_lux,
\* moisture_percent, temperature_celsius. If the k-th cannot be built, the
\* ones before it have been sent, it and the ones after it are not, and
\* the error is returned to the caller; the emission step leaves up, the
\* error counter and the metrics already emitted as they are.
C16_EmissionStopsAtFirstFailure ==
    /\ [](\A k \in 1..Len(SensorNames) :
             LET ms == Spoiled(k)
                 r  == SendFrom(ms, 1)
             IN  /\ [i \in 1..Len(ms) |-> ms[i].name] = SensorNames
                 /\ FirstFail(ms) <= k
                 /\ cache.Firmware.Version # BadVersion => FirstFail(ms) = k
                 /\ r.err
                 /\ r.out = SubSeq(ms, 1, FirstFail(ms) - 1))
    /\ [](collectData(cache).out = SubSeq(MetricList(cache), 1, FirstFail(MetricList(cache)) - 1)
          /\ collectData(cache).err = (FirstFail(MetricList(cache)) <= Len(SensorNames)))
    /\ [][\A p \in Procs :
              pc[p] = "copyCache" /\ pc'[p] = "done" =>
                  LET ms == MetricList([arg[p] EXCEPT !.Sensors = cache.Sensors])
                  IN  /\ emitted'[p] = emitted[p] \o SubSeq(ms, 1, FirstFail(ms) - 1)
                      /\ up' = up /\ scrapeErrors' = scrapeErrors
                      /\ failedReads' = failedReads /\ cache' = cache]_vars

\* the info metric of the cached reading could not be built: the snapshot
\* has emitted scrape_timestamp and nothing after it, up is 1 and no error
\* has been counted
C16_Witness ==
    \E p \in Procs :
        /\ Done(p) /\ quiet[p] /\ Names(p) = << "up", "scrape_errors_total", "scrape_timestamp" >>
        /\ FirstFail(MetricList(cache)) = 2
        /\ up = 1 /\ scrapeErrors = 0 /\ emitted[p][1].value = Float(1)

\* the step is one of p
StepOf(p) == pc'[p] # pc[p] \/ todo'[p] # todo[p]

\* C17: the steps of a snapshot that does not refresh include no call of
\* readData and leave the cache, up and the error counter as they are; the
\* cache changes only in the assignment that follows a successful readData
\* of the snapshot taking the step.
C17_NoRefreshNoChange ==
    /\ [][\A p \in Procs :
              StepOf(p) /\ attempt'[p] = "none" =>
                  /\ pc[p] # "readData"
                  /\ cache' = cache /\ up' = up /\ scrapeErrors' = scrapeErrors
                  /\ failedReads' = failedReads /\ lastAttempt' = lastAttempt]_vars
    /\ [][cache' # cache =>
              \E p \in Procs :
                  /\ pc[p] = "writeCache" /\ attempt[p] = "ok" /\ StepOf(p)
                  /\ cache' = [cache EXCEPT ![Fields[todo[p]]] = data[p][Fields[todo[p]]]]]_vars

\* a snapshot has returned without calling readData, having emitted the
\* whole sensor set of a reading that another snapshot had stored
C17_Witness ==
    \E p \in Procs :
        Done(p) /\ attempt[p] = "none" /\ Len(emitted[p]) = 9 /\ quiet[p]
        /\ cache.Time # ZeroTime /\ up = 1

\* C18: with CacheDuration > 0 and a cached reading whose metrics can all
\* be built, a snapshot that has returned without calling readData has
\* emitted the whole sensor set: at no age of the cache, the age
\* CacheDuration included, does a snapshot neither refresh nor emit.
C18_RefreshOrSensorSet ==
    \A p \in Procs :
        /\ Done(p) /\ CacheDuration > 0 /\ attempt[p] = "none"
        /\ quiet[p] /\ cache.Firmware.Version # BadVersion
        => Len(emitted[p]) = 2 + Len(SensorNames)

\* C19: the capture time of the cached reading never decreases, however the
\* steps of overlapping snapshots interleave.
C19_CapturedAtNeverDecreases ==
    [][cache'.Time >= cache.Time]_vars

\* C20: a collector configured with a cache duration of zero or less never
\* emits a sensor metric: every snapshot emits at most up and
\* scrape_errors_total, also the one that has just stored a reading.
C20_NoSensorMetricsWithoutDuration ==
    config.CacheDuration <= 0 =>
        \A p \in Procs : Len(emitted[p]) <= 2 /\ pc[p] # "copyCache" /\ chk[p] # "fresh"

\* with a cache duration of zero a snapshot has stored a reading and
\* returned at the very clock reading of its capture, with up = 1 and no
\* sensor metric
C20_Witness ==
    \E p \in Procs :
        /\ mainPc = "serving" /\ CacheDuration = 0
        /\ Done(p) /\ attempt[p] = "ok" /\ quiet[p] /\ cache.Time = now
        /\ cache.Firmware.Version = "1.2"
        /\ Names(p) = << "up", "scrape_errors_total" >> /\ emitted[p][1].value = Float(1)

====
